---- MODULE Spec2Model ----
(***************************************************************************)
(* Book-library lending API: the borrow/return transaction core and the    *)
(* create handlers, as a state machine over the three DynamoDB tables.     *)
(* Every handler is an async function; its store calls (get, query, put,   *)
(* transactWrite) are the points where other invocations interleave, so    *)
(* each action below is the code of one handler from one await to the next.*)
(***************************************************************************)
EXTENDS Integers, FiniteSets, Sequences, TLC

(* ------------------------------ bounds -------------------------------- *)
\* largest totalCopies of a book in the model
MaxCopies == 2
\* largest borrowingLimit of a seeded user
MaxLimit == 2
\* handler invocations started in one run of the model
MaxCalls == 2
\* the model stops returns that would push availableCopies past
\* MaxCopies + Headroom (the code has no upper bound at all)
Headroom == 1
\* last day the clock reaches
MaxTime == 2

(* --------------------------- program constants ------------------------ *)
\* createUser: borrowingLimit: 5
DefaultBorrowingLimit == 5
\* borrowBook: body.durationDays || 14
DefaultDurationDays == 14
\* BorrowBookRequest.durationDays: minimum 1, maximum 30
MinDurationDays == 1
MaxDurationDays == 30
\* parsePaginationParams: page || '1', limit || '20', Math.min(100, limit)
DefaultPage == 1
DefaultPageSize == 20
MaxPageSize == 100

(* ------------------------------ id spaces ----------------------------- *)
\* concurrent handler invocations (Lambda instances)
Procs == {"p1", "p2"}
\* primary keys generateId('bk') can produce: two more than are seeded, so
\* that two createBook invocations can each draw an id no book has
BookIds == {"bk_000001", "bk_000002", "bk_00000f", "bk_0000aa"}
\* primary keys generateId('usr') can produce, likewise
UserIds == {"usr_000001", "usr_000002", "usr_00000f", "usr_0000aa"}
\* primary keys generateId('brw') can produce: as many as records can be
\* stored, so that every borrow can draw an id no record has
RecIds == {"brw_000001", "brw_000002", "brw_000003", "brw_000004"}
\* the ids requests are sent with: the seeded ones and one that is not seeded
RequestBookIds == {"bk_000001", "bk_000002", "bk_00000f"}
RequestUserIds == {"usr_000001", "usr_000002", "usr_00000f"}
\* a path parameter / body field that fails the id regex
BadBookId == "bk_1"
BadUserId == "usr_1"
\* an absent body.userId
NoUserId == ""
Isbns == {"978-0-0000-0001-1", "978-0-0000-0002-2", "978-0-0000-0003-3"}
BadIsbn == "978-1"
Emails == {"a@x.io", "b@x.io", "c@x.io"}
BadEmail == "nobody"
\* an absent table item / an unset local
NoItem == [none |-> TRUE]
\* header values: absent, the configured key, another key
NoKey == ""
ValidApiKeyValue == "test-api-key"
ApiKeys == {NoKey, ValidApiKeyValue, "wrong-key"}

VARIABLES
    books,       \* BOOKS_TABLE: id -> item
    users,       \* USERS_TABLE: id -> item
    borrowings,  \* BORROWING_TABLE: id -> item
    inv,         \* per invocation slot: position, request, locals, response
    calls,       \* handler invocations started so far
    clock        \* what new Date() reads, in days

vars == <<books, users, borrowings, inv, calls, clock>>
store == <<books, users, borrowings>>

(* ------------------------------ helpers ------------------------------- *)
\* validateApiKey(event).isValid
validateApiKey(key) == key # NoKey /\ key = ValidApiKeyValue

\* bookId && bookId.match(/^bk_[a-zA-Z0-9]{6}$/)
ValidBookIdFormat(b) == b \in BookIds

\* body.userId && body.userId.match(/^usr_[a-zA-Z0-9]{6}$/)
ValidUserIdFormat(u) == u # NoUserId /\ u \in UserIds

\* isbnRegex.test(body.isbn)
ValidIsbnFormat(i) == i \in Isbns

\* emailRegex.test(body.email)
ValidEmailFormat(e) == e \in Emails

\* keys of the items a table holds
Present(tbl, ids) == {k \in ids : tbl[k] # NoItem}

\* a JavaScript number: an integer or NaN
Num(n) == [nan |-> FALSE, val |-> n]
NaN == [nan |-> TRUE, val |-> 0]

\* Math.max(a, b) and Math.min(a, b): NaN if either argument is NaN
MathMax(a, b) ==
    IF a.nan \/ b.nan THEN NaN ELSE IF a.val >= b.val THEN a ELSE b
MathMin(a, b) ==
    IF a.nan \/ b.nan THEN NaN ELSE IF a.val <= b.val THEN a ELSE b
\* a - b and a * b
Minus(a, b) == IF a.nan \/ b.nan THEN NaN ELSE Num(a.val - b.val)
Times(a, b) == IF a.nan \/ b.nan THEN NaN ELSE Num(a.val * b.val)

\* a query string parameter: not sent, sent empty, a numeral, other text
AbsentParam == [kind |-> "absent", n |-> 0]
EmptyParam == [kind |-> "empty", n |-> 0]
Numeral(n) == [kind |-> "numeral", n |-> n]
TextParam == [kind |-> "text", n |-> 0]

\* parseInt(param || dflt, 10)
parseIntOr(param, dflt) ==
    IF param.kind \in {"absent", "empty"} THEN Num(dflt)
    ELSE IF param.kind = "numeral" THEN Num(param.n)
    ELSE NaN

parsePaginationParams(pageParam, limitParam) ==
    LET page == parseIntOr(pageParam, DefaultPage)
        limit == parseIntOr(limitParam, DefaultPageSize)
        validPage == MathMax(Num(1), page)
        validLimit == MathMax(Num(1), MathMin(Num(MaxPageSize), limit))
    IN [page |-> validPage, limit |-> validLimit,
        offset |-> Times(Minus(validPage, Num(1)), validLimit)]

\* queryStringParameters?.available when the parameter is not sent
NoParam == "<undefined>"
\* what an invocation holds before it has a query, a page or a response body
NoQuery == [page |-> AbsentParam, limit |-> AbsentParam, available |-> NoParam]
NoPaging == [page |-> Num(0), limit |-> Num(0), offset |-> Num(0)]
NoBody == [items |-> {}]

Idle(code) ==
    [pc |-> "idle", op |-> "none", apiKey |-> "", bookId |-> "", userId |-> "",
     recId |-> "", key |-> "", copies |-> 0, days |-> 0, ts |-> 0,
     query |-> NoQuery, paging |-> NoPaging, body |-> NoBody, status |-> code]

\* the handler returns `code`: the slot is free again and keeps the response
\* (and which handler was called with which X-API-Key)
Respond(p, code) ==
    inv' = [inv EXCEPT ![p] = [Idle(code) EXCEPT !.op = inv[p].op, !.apiKey = inv[p].apiKey]]

\* createResponse(code, body)
RespondWith(p, code, body) ==
    inv' = [inv EXCEPT ![p] = [Idle(code) EXCEPT !.op = inv[p].op, !.apiKey = inv[p].apiKey,
                                                 !.body = body]]

Goto(p, label) == inv' = [inv EXCEPT ![p].pc = label]

\* query on UserIndex (userId, status = 'active') filtered by bookId
ActiveRecords(u, b) ==
    {r \in RecIds : /\ borrowings[r] # NoItem
                    /\ borrowings[r].userId = u
                    /\ borrowings[r].bookId = b
                    /\ borrowings[r].status = "active"}

ActiveOfBook(b) ==
    {r \in RecIds : /\ borrowings[r] # NoItem
                    /\ borrowings[r].bookId = b
                    /\ borrowings[r].status = "active"}

ActiveOfUser(u) ==
    {r \in RecIds : /\ borrowings[r] # NoItem
                    /\ borrowings[r].userId = u
                    /\ borrowings[r].status = "active"}

(* ------------------------------- Init --------------------------------- *)
SeedIsbn(b) == IF b = "bk_000001" THEN "978-0-0000-0001-1" ELSE "978-0-0000-0002-2"
SeedEmail(u) == IF u = "usr_000001" THEN "a@x.io" ELSE "b@x.io"

\* the item of createBook with no copy on the shelf
NewBookNoneAvailable(isbn, copies) ==
    [isbn |-> isbn, totalCopies |-> copies, availableCopies |-> 0]

\* the item createBook puts (fields that no handler branches on are left out)
NewBook(isbn, copies) ==
    [isbn |-> isbn, totalCopies |-> copies, availableCopies |-> copies]

\* the item createUser puts, for a given borrowingLimit
NewUser(email, limit) ==
    [email |-> email, membershipStatus |-> "active", borrowingLimit |-> limit,
     currentBorrowedCount |-> 0]

\* the clock when the tables are deployed, and returnedAt of a record that
\* has not been returned
StartTime == 1
NoTime == 0

\* body.durationDays || 14, for an absent field (<<>>) or a number (<<n>>)
DurationOrDefault(d) == IF d = <<>> \/ d[1] = 0 THEN DefaultDurationDays ELSE d[1]

\* dueDate.setDate(dueDate.getDate() + durationDays)
AddDays(t, d) == t + d

\* the item borrowBook puts, built at time t for d days
NewBorrowing(u, b, t, d) ==
    [userId |-> u, bookId |-> b, status |-> "active",
     borrowedAt |-> t, dueDate |-> AddDays(t, d), returnedAt |-> NoTime]

\* the record update of returnBook: SET #status = :status, returnedAt = :timestamp
MarkReturned(rec, t) == [rec EXCEPT !.status = "returned", !.returnedAt = t]

\* The tables as a deployment finds them: two books and two users are there
\* (the last id of each space is not taken yet), nothing is borrowed, and no
\* handler runs.
Deployed ==
    /\ \E c \in 1..MaxCopies :
          books = [b \in BookIds |->
                      IF b = "bk_000001" THEN NewBook(SeedIsbn(b), c)
                      ELSE IF b = "bk_000002" THEN NewBook(SeedIsbn(b), 1)
                      ELSE NoItem]
    /\ \E l \in 1..MaxLimit :
          users = [u \in UserIds |->
                      IF u = "usr_000001" THEN NewUser(SeedEmail(u), l)
                      ELSE IF u = "usr_000002" THEN NewUser(SeedEmail(u), 1)
                      ELSE NoItem]
    /\ borrowings = [r \in RecIds |-> NoItem]
    /\ inv = [p \in Procs |-> Idle(0)]

\* The deployed tables after borrowBook(bk_000001, usr_000001) has run once:
\* the record is stored under brw_000001 and both counters have moved.
Lent ==
    /\ \E c \in 1..MaxCopies :
          books = [b \in BookIds |->
                      IF b = "bk_000001"
                      THEN [NewBook(SeedIsbn(b), c) EXCEPT !.availableCopies = c - 1]
                      ELSE IF b = "bk_000002" THEN NewBook(SeedIsbn(b), 1)
                      ELSE NoItem]
    /\ \E l \in 1..MaxLimit :
          users = [u \in UserIds |->
                      IF u = "usr_000001"
                      THEN [NewUser(SeedEmail(u), l) EXCEPT !.currentBorrowedCount = 1]
                      ELSE IF u = "usr_000002" THEN NewUser(SeedEmail(u), 1)
                      ELSE NoItem]
    /\ borrowings = [r \in RecIds |->
                       IF r = "brw_000001"
                       THEN NewBorrowing("usr_000001", "bk_000001", StartTime, DefaultDurationDays)
                       ELSE NoItem]
    /\ inv = [p \in Procs |-> Idle(0)]

\* The tables as deployed or with the first book lent, no handler running.
Init ==
    /\ Deployed \/ Lent
    /\ calls = 0
    /\ clock = StartTime

(* ------------------------------- clock -------------------------------- *)
\* a day passes
Tick ==
    /\ clock < MaxTime
    /\ clock' = clock + 1
    /\ UNCHANGED <<store, inv, calls>>

(* ----------------------------- borrowBook ----------------------------- *)
\* borrowBook up to its first await: API key, JSON.parse, the two id checks
InvokeBorrow(p, key, bodyOk, b, u, d) ==
    /\ inv[p].pc = "idle"
    /\ calls < MaxCalls
    /\ calls' = calls + 1
    /\ UNCHANGED clock
    /\ UNCHANGED store
    /\ LET req == [Idle(0) EXCEPT !.op = "borrow", !.apiKey = key] IN
       IF ~validateApiKey(key) THEN inv' = [inv EXCEPT ![p] = [req EXCEPT !.status = 401]]
       ELSE IF ~bodyOk THEN inv' = [inv EXCEPT ![p] = [req EXCEPT !.status = 500]]
       ELSE IF ~ValidBookIdFormat(b) THEN inv' = [inv EXCEPT ![p] = [req EXCEPT !.status = 400]]
       ELSE IF ~ValidUserIdFormat(u) THEN inv' = [inv EXCEPT ![p] = [req EXCEPT !.status = 400]]
       ELSE inv' = [inv EXCEPT ![p] = [req EXCEPT !.pc = "getBook", !.bookId = b, !.userId = u,
                                                  !.days = DurationOrDefault(d)]]

\* the availability check as availableCopies < 0
BorrowGetBookNegativeOnly(p) ==
    /\ UNCHANGED <<calls, clock>>
    /\ inv[p].pc = "getBook"
    /\ UNCHANGED store
    /\ LET book == books[inv[p].bookId] IN
       IF book = NoItem THEN Respond(p, 404)
       ELSE IF book.availableCopies < 0 THEN Respond(p, 409)
       ELSE Goto(p, "getUser")

\* a missing book reported like an unavailable one
BorrowGetBookMissingAsConflict(p) ==
    /\ UNCHANGED <<calls, clock>>
    /\ inv[p].pc = "getBook"
    /\ UNCHANGED store
    /\ LET book == books[inv[p].bookId] IN
       IF book = NoItem THEN Respond(p, 409)
       ELSE IF book.availableCopies <= 0 THEN Respond(p, 409)
       ELSE Goto(p, "getUser")

\* the user looked up before the book
BorrowGetBookUserFirst(p) ==
    /\ UNCHANGED <<calls, clock>>
    /\ inv[p].pc = "getBook"
    /\ UNCHANGED store
    /\ LET book == books[inv[p].bookId] IN
       IF users[inv[p].userId] = NoItem THEN Respond(p, 404)
       ELSE IF book = NoItem THEN Respond(p, 404)
       ELSE IF book.availableCopies <= 0 THEN Respond(p, 409)
       ELSE Goto(p, "getUser")

\* the availability check as availableCopies <= 1: the last copy is kept back
BorrowGetBookKeepsLastCopy(p) ==
    /\ inv[p].pc = "getBook"
    /\ UNCHANGED <<calls, clock>>
    /\ UNCHANGED store
    /\ LET book == books[inv[p].bookId] IN
       IF book = NoItem THEN Respond(p, 404)
       ELSE IF book.availableCopies <= 1 THEN Respond(p, 409)
       ELSE Goto(p, "getUser")

\* the read of the book as a wait for a copy: no answer while none is left
BorrowGetBookWaits(p) ==
    /\ inv[p].pc = "getBook"
    /\ UNCHANGED <<calls, clock>>
    /\ UNCHANGED store
    /\ LET book == books[inv[p].bookId] IN
       IF book = NoItem THEN Respond(p, 404)
       ELSE /\ book.availableCopies > 0
            /\ Goto(p, "getUser")

\* dynamodb.get(BOOKS_TABLE) and the two checks on its result
BorrowGetBook(p) ==
    /\ UNCHANGED <<calls, clock>>
    /\ inv[p].pc = "getBook"
    /\ UNCHANGED store
    /\ LET book == books[inv[p].bookId] IN
       IF book = NoItem THEN Respond(p, 404)
       ELSE IF book.availableCopies <= 0 THEN Respond(p, 409)
       ELSE Goto(p, "getUser")

\* generateId('brw'): three random bytes, any id of the space
generateRecId == RecIds

\* the limit check as currentBorrowedCount > borrowingLimit
BorrowGetUserOffByOne(p) ==
    /\ inv[p].pc = "getUser"
    /\ UNCHANGED <<calls, clock>>
    /\ UNCHANGED store
    /\ LET user == users[inv[p].userId] IN
       IF user = NoItem THEN Respond(p, 404)
       ELSE IF user.currentBorrowedCount > user.borrowingLimit THEN Respond(p, 409)
       ELSE \E r \in generateRecId :
                inv' = [inv EXCEPT ![p].pc = "borrowTx", ![p].recId = r, ![p].ts = clock]

\* dynamodb.get(USERS_TABLE), the two checks on its result, and the new record
BorrowGetUser(p) ==
    /\ UNCHANGED <<calls, clock>>
    /\ inv[p].pc = "getUser"
    /\ UNCHANGED store
    /\ LET user == users[inv[p].userId] IN
       IF user = NoItem THEN Respond(p, 404)
       ELSE IF user.currentBorrowedCount >= user.borrowingLimit THEN Respond(p, 409)
       ELSE \E r \in generateRecId :
                inv' = [inv EXCEPT ![p].pc = "borrowTx", ![p].recId = r, ![p].ts = clock]

\* the book update without its ConditionExpression
BorrowBookConditionDropped(book) == book # NoItem

\* ConditionExpression of the book update in borrowBook's transaction
BorrowBookCondition(book) == book # NoItem /\ book.availableCopies > 0

\* ConditionExpression of the user update in borrowBook's transaction (none)
BorrowUserCondition(user) == user # NoItem

\* the three writes sent one by one: the Put lands before the book update fails
BorrowTransactPiecewise(p) ==
    /\ inv[p].pc = "borrowTx"
    /\ UNCHANGED <<calls, clock>>
    /\ LET b == inv[p].bookId
           u == inv[p].userId
           r == inv[p].recId
       IN IF BorrowBookCondition(books[b]) /\ BorrowUserCondition(users[u])
          THEN /\ borrowings' = [borrowings EXCEPT ![r] = NewBorrowing(u, b, inv[p].ts, inv[p].days)]
               /\ books' = [books EXCEPT ![b].availableCopies = @ - 1]
               /\ users' = [users EXCEPT ![u].currentBorrowedCount = @ + 1]
               /\ Respond(p, 200)
          ELSE /\ borrowings' = [borrowings EXCEPT ![r] = NewBorrowing(u, b, inv[p].ts, inv[p].days)]
               /\ UNCHANGED <<books, users>>
               /\ Respond(p, 409)

\* the catch block without its TransactionCanceledException branch
BorrowTransactRejectedAsError(p) ==
    /\ UNCHANGED <<calls, clock>>
    /\ inv[p].pc = "borrowTx"
    /\ LET b == inv[p].bookId
           u == inv[p].userId
           r == inv[p].recId
       IN IF BorrowBookCondition(books[b]) /\ BorrowUserCondition(users[u])
          THEN /\ borrowings' = [borrowings EXCEPT ![r] = NewBorrowing(u, b, inv[p].ts, inv[p].days)]
               /\ books' = [books EXCEPT ![b].availableCopies = @ - 1]
               /\ users' = [users EXCEPT ![u].currentBorrowedCount = @ + 1]
               /\ Respond(p, 200)
          ELSE /\ UNCHANGED store
               /\ Respond(p, 500)

\* a cancelled transaction retried from the first read
BorrowTransactRetry(p) ==
    /\ UNCHANGED <<calls, clock>>
    /\ inv[p].pc = "borrowTx"
    /\ LET b == inv[p].bookId
           u == inv[p].userId
           r == inv[p].recId
       IN IF BorrowBookCondition(books[b]) /\ BorrowUserCondition(users[u])
          THEN /\ borrowings' = [borrowings EXCEPT ![r] = NewBorrowing(u, b, inv[p].ts, inv[p].days)]
               /\ books' = [books EXCEPT ![b].availableCopies = @ - 1]
               /\ users' = [users EXCEPT ![u].currentBorrowedCount = @ + 1]
               /\ Respond(p, 200)
          ELSE /\ UNCHANGED store
               /\ Goto(p, "getBook")

\* dynamodb.transactWrite of borrowBook: Put record, Update book, Update user
BorrowTransact(p) ==
    /\ UNCHANGED <<calls, clock>>
    /\ inv[p].pc = "borrowTx"
    /\ LET b == inv[p].bookId
           u == inv[p].userId
           r == inv[p].recId
       IN IF BorrowBookCondition(books[b]) /\ BorrowUserCondition(users[u])
          THEN /\ borrowings' = [borrowings EXCEPT ![r] = NewBorrowing(u, b, inv[p].ts, inv[p].days)]
               /\ books' = [books EXCEPT ![b].availableCopies = @ - 1]
               /\ users' = [users EXCEPT ![u].currentBorrowedCount = @ + 1]
               /\ Respond(p, 200)
          ELSE \* TransactionCanceledException
               /\ UNCHANGED store
               /\ Respond(p, 409)

(* ----------------------------- returnBook ----------------------------- *)
\* returnBook up to its first await
InvokeReturn(p, key, bodyOk, b, u) ==
    /\ inv[p].pc = "idle"
    /\ calls < MaxCalls
    /\ calls' = calls + 1
    /\ UNCHANGED clock
    /\ UNCHANGED store
    /\ LET req == [Idle(0) EXCEPT !.op = "return", !.apiKey = key] IN
       IF ~validateApiKey(key) THEN inv' = [inv EXCEPT ![p] = [req EXCEPT !.status = 401]]
       ELSE IF ~bodyOk THEN inv' = [inv EXCEPT ![p] = [req EXCEPT !.status = 500]]
       ELSE IF ~ValidBookIdFormat(b) THEN inv' = [inv EXCEPT ![p] = [req EXCEPT !.status = 400]]
       ELSE IF ~ValidUserIdFormat(u) THEN inv' = [inv EXCEPT ![p] = [req EXCEPT !.status = 400]]
       ELSE inv' = [inv EXCEPT ![p] = [req EXCEPT !.pc = "queryRec", !.bookId = b, !.userId = u]]

\* the query without its FilterExpression bookId = :bookId
ReturnQueryAnyBook(p) ==
    /\ UNCHANGED <<calls, clock>>
    /\ inv[p].pc = "queryRec"
    /\ UNCHANGED store
    /\ LET items == ActiveOfUser(inv[p].userId) IN
       IF items = {} THEN Respond(p, 404)
       ELSE \E r \in items :
                inv' = [inv EXCEPT ![p].pc = "returnTx", ![p].recId = r, ![p].ts = clock]

\* dynamodb.query(UserIndex) and borrowingResult.Items[0]: items of one
\* (userId, status) key come in no order the code controls
ReturnQuery(p) ==
    /\ UNCHANGED <<calls, clock>>
    /\ inv[p].pc = "queryRec"
    /\ UNCHANGED store
    /\ LET items == ActiveRecords(inv[p].userId, inv[p].bookId) IN
       IF items = {} THEN Respond(p, 404)
       ELSE \E r \in items :
                inv' = [inv EXCEPT ![p].pc = "returnTx", ![p].recId = r, ![p].ts = clock]

\* ConditionExpression of the record update in returnBook's transaction (none)
ReturnRecordCondition(rec) == rec # NoItem

\* ConditionExpression of the book update in returnBook's transaction (none)
ReturnBookCondition(book) == book # NoItem

\* the user update without its ConditionExpression
ReturnUserConditionDropped(user) == user # NoItem

\* ConditionExpression of the user update in returnBook's transaction
ReturnUserCondition(user) == user # NoItem /\ user.currentBorrowedCount > 0

\* a cancelled transaction swallowed: the handler goes on to its 200
ReturnTransactRejectedOk(p) ==
    /\ UNCHANGED <<calls, clock>>
    /\ inv[p].pc = "returnTx"
    /\ LET b == inv[p].bookId
           u == inv[p].userId
           r == inv[p].recId
       IN /\ books[b] # NoItem => books[b].availableCopies < MaxCopies + Headroom
          /\ IF /\ ReturnRecordCondition(borrowings[r])
                /\ ReturnBookCondition(books[b])
                /\ ReturnUserCondition(users[u])
             THEN /\ borrowings' = [borrowings EXCEPT ![r] = MarkReturned(@, inv[p].ts)]
                  /\ books' = [books EXCEPT ![b].availableCopies = @ + 1]
                  /\ users' = [users EXCEPT ![u].currentBorrowedCount = @ - 1]
                  /\ Respond(p, 200)
             ELSE /\ UNCHANGED store
                  /\ Respond(p, 200)

\* the three updates sent one by one: the record and the book are written
\* before the user update fails its condition
ReturnTransactPiecewise(p) ==
    /\ UNCHANGED <<calls, clock>>
    /\ inv[p].pc = "returnTx"
    /\ LET b == inv[p].bookId
           u == inv[p].userId
           r == inv[p].recId
       IN /\ books[b] # NoItem => books[b].availableCopies < MaxCopies + Headroom
          /\ IF /\ ReturnRecordCondition(borrowings[r])
                /\ ReturnBookCondition(books[b])
                /\ ReturnUserCondition(users[u])
             THEN /\ borrowings' = [borrowings EXCEPT ![r] = MarkReturned(@, inv[p].ts)]
                  /\ books' = [books EXCEPT ![b].availableCopies = @ + 1]
                  /\ users' = [users EXCEPT ![u].currentBorrowedCount = @ - 1]
                  /\ Respond(p, 200)
             ELSE /\ borrowings' = [borrowings EXCEPT ![r] = MarkReturned(@, inv[p].ts)]
                  /\ books' = [books EXCEPT ![b].availableCopies = @ + 1]
                  /\ UNCHANGED users
                  /\ Respond(p, 409)

\* dynamodb.transactWrite of returnBook: Update record, Update book, Update user
ReturnTransact(p) ==
    /\ UNCHANGED <<calls, clock>>
    /\ inv[p].pc = "returnTx"
    /\ LET b == inv[p].bookId
           u == inv[p].userId
           r == inv[p].recId
       IN /\ books[b] # NoItem => books[b].availableCopies < MaxCopies + Headroom
          /\ IF /\ ReturnRecordCondition(borrowings[r])
                /\ ReturnBookCondition(books[b])
                /\ ReturnUserCondition(users[u])
             THEN /\ borrowings' = [borrowings EXCEPT ![r] = MarkReturned(@, inv[p].ts)]
                  /\ books' = [books EXCEPT ![b].availableCopies = @ + 1]
                  /\ users' = [users EXCEPT ![u].currentBorrowedCount = @ - 1]
                  /\ Respond(p, 200)
             ELSE \* TransactionCanceledException
                  /\ UNCHANGED store
                  /\ Respond(p, 409)

(* ----------------------------- createBook ----------------------------- *)
\* generateId('bk')
generateBookId == BookIds

\* createBook up to its first await: API key, JSON.parse, required fields
\* (a totalCopies of 0 is "missing"), ISBN format
InvokeCreateBook(p, key, bodyOk, isbn, copies) ==
    /\ inv[p].pc = "idle"
    /\ calls < MaxCalls
    /\ calls' = calls + 1
    /\ UNCHANGED clock
    /\ UNCHANGED store
    /\ LET req == [Idle(0) EXCEPT !.op = "createBook", !.apiKey = key] IN
       IF ~validateApiKey(key) THEN inv' = [inv EXCEPT ![p] = [req EXCEPT !.status = 401]]
       ELSE IF ~bodyOk THEN inv' = [inv EXCEPT ![p] = [req EXCEPT !.status = 500]]
       ELSE IF copies = 0 THEN inv' = [inv EXCEPT ![p] = [req EXCEPT !.status = 400]]
       ELSE IF ~ValidIsbnFormat(isbn) THEN inv' = [inv EXCEPT ![p] = [req EXCEPT !.status = 400]]
       ELSE inv' = [inv EXCEPT ![p] = [req EXCEPT !.pc = "queryIsbn", !.key = isbn, !.copies = copies]]

\* dynamodb.query(ISBNIndex), the duplicate check, and the new id
CreateBookQuery(p) ==
    /\ UNCHANGED <<calls, clock>>
    /\ inv[p].pc = "queryIsbn"
    /\ UNCHANGED store
    /\ IF \E b \in BookIds : books[b] # NoItem /\ books[b].isbn = inv[p].key
       THEN Respond(p, 409)
       ELSE \E id \in generateBookId :
                inv' = [inv EXCEPT ![p].pc = "putBook", ![p].bookId = id]

\* dynamodb.put(BOOKS_TABLE): unconditional
CreateBookPut(p) ==
    /\ UNCHANGED <<calls, clock>>
    /\ inv[p].pc = "putBook"
    /\ books' = [books EXCEPT ![inv[p].bookId] = NewBook(inv[p].key, inv[p].copies)]
    /\ UNCHANGED <<users, borrowings>>
    /\ Respond(p, 201)

(* ----------------------------- createUser ----------------------------- *)
\* generateId('usr')
generateUserId == UserIds

\* createUser up to its first await: API key, JSON.parse, email format
\* (name and password are taken to be present)
InvokeCreateUser(p, key, bodyOk, email) ==
    /\ inv[p].pc = "idle"
    /\ calls < MaxCalls
    /\ calls' = calls + 1
    /\ UNCHANGED clock
    /\ UNCHANGED store
    /\ LET req == [Idle(0) EXCEPT !.op = "createUser", !.apiKey = key] IN
       IF ~validateApiKey(key) THEN inv' = [inv EXCEPT ![p] = [req EXCEPT !.status = 401]]
       ELSE IF ~bodyOk THEN inv' = [inv EXCEPT ![p] = [req EXCEPT !.status = 500]]
       ELSE IF ~ValidEmailFormat(email) THEN inv' = [inv EXCEPT ![p] = [req EXCEPT !.status = 400]]
       ELSE inv' = [inv EXCEPT ![p] = [req EXCEPT !.pc = "queryEmail", !.key = email]]

\* dynamodb.query(EmailIndex) and the duplicate check
CreateUserQuery(p) ==
    /\ UNCHANGED <<calls, clock>>
    /\ inv[p].pc = "queryEmail"
    /\ UNCHANGED store
    /\ IF \E u \in UserIds : users[u] # NoItem /\ users[u].email = inv[p].key
       THEN Respond(p, 409)
       ELSE Goto(p, "hashPassword")

\* bcrypt.hash returns, and the new item is built under a new id
CreateUserHash(p) ==
    /\ UNCHANGED <<calls, clock>>
    /\ inv[p].pc = "hashPassword"
    /\ UNCHANGED store
    /\ \E id \in generateUserId :
          inv' = [inv EXCEPT ![p].pc = "putUser", ![p].userId = id]

\* dynamodb.put(USERS_TABLE): unconditional
CreateUserPut(p) ==
    /\ UNCHANGED <<calls, clock>>
    /\ inv[p].pc = "putUser"
    /\ users' = [users EXCEPT ![inv[p].userId] = NewUser(inv[p].key, DefaultBorrowingLimit)]
    /\ UNCHANGED <<books, borrowings>>
    /\ Respond(p, 201)

(* ------------------------------ listBooks ----------------------------- *)
\* listBooks up to its scan: API key, parsePaginationParams, the filter
InvokeListBooks(p, key, pageParam, limitParam, available) ==
    /\ inv[p].pc = "idle"
    /\ calls < MaxCalls
    /\ calls' = calls + 1
    /\ UNCHANGED clock
    /\ UNCHANGED store
    /\ LET req == [Idle(0) EXCEPT !.op = "listBooks", !.apiKey = key] IN
       IF ~validateApiKey(key) THEN inv' = [inv EXCEPT ![p] = [req EXCEPT !.status = 401]]
       ELSE inv' = [inv EXCEPT ![p] =
                      [req EXCEPT !.pc = "scanBooks",
                                  !.query = [page |-> pageParam, limit |-> limitParam,
                                             available |-> available],
                                  !.paging = parsePaginationParams(pageParam, limitParam)]]

\* dynamodb.scan with Limit: the items it reads before filtering are the
\* first `limit` of the table in the store's order. A Limit of NaN is not a
\* request the SDK defines: the scan fails or runs without a limit.
ScanResults(ids, limit) ==
    IF limit.nan
    THEN {[ok |-> FALSE, page |-> {}], [ok |-> TRUE, page |-> ids]}
    ELSE {[ok |-> TRUE, page |-> S] :
            S \in {T \in SUBSET ids :
                     Cardinality(T) = IF limit.val <= Cardinality(ids)
                                      THEN limit.val ELSE Cardinality(ids)}}

\* FilterExpression 'available = :available' on a stored item: an item
\* without the attribute matches no value
AvailableFilter(item, available) ==
    \/ available = NoParam
    \/ /\ "available" \in DOMAIN item
       /\ item.available = (available = "true")

\* result.Items.map(book => ...): one entry of the response
BookView(b) ==
    [id |-> b, totalCopies |-> books[b].totalCopies,
     availableCopies |-> books[b].availableCopies,
     available |-> books[b].availableCopies > 0]

\* dynamodb.scan(BOOKS_TABLE) and the response
ListBooksScan(p) ==
    /\ UNCHANGED <<calls, clock>>
    /\ inv[p].pc = "scanBooks"
    /\ UNCHANGED store
    /\ \E res \in ScanResults(Present(books, BookIds), inv[p].paging.limit) :
          IF ~res.ok THEN Respond(p, 500)
          ELSE LET found == {b \in res.page : AvailableFilter(books[b], inv[p].query.available)}
               IN RespondWith(p, 200,
                     [items |-> {BookView(b) : b \in found},
                      page |-> inv[p].paging.page, limit |-> inv[p].paging.limit,
                      totalItems |-> Cardinality(found)])

(* ------------------------------ listUsers ----------------------------- *)
\* listUsers without validateApiKey
InvokeListUsersNoAuth(p, key, pageParam, limitParam) ==
    /\ inv[p].pc = "idle"
    /\ calls < MaxCalls
    /\ calls' = calls + 1
    /\ UNCHANGED clock
    /\ UNCHANGED store
    /\ LET req == [Idle(0) EXCEPT !.op = "listUsers", !.apiKey = key] IN
       inv' = [inv EXCEPT ![p] =
                 [req EXCEPT !.pc = "scanUsers",
                             !.query = [page |-> pageParam, limit |-> limitParam,
                                        available |-> NoParam],
                             !.paging = parsePaginationParams(pageParam, limitParam)]]

\* listUsers up to its scan: API key, parsePaginationParams
InvokeListUsers(p, key, pageParam, limitParam) ==
    /\ inv[p].pc = "idle"
    /\ calls < MaxCalls
    /\ calls' = calls + 1
    /\ UNCHANGED clock
    /\ UNCHANGED store
    /\ LET req == [Idle(0) EXCEPT !.op = "listUsers", !.apiKey = key] IN
       IF ~validateApiKey(key) THEN inv' = [inv EXCEPT ![p] = [req EXCEPT !.status = 401]]
       ELSE inv' = [inv EXCEPT ![p] =
                      [req EXCEPT !.pc = "scanUsers",
                                  !.query = [page |-> pageParam, limit |-> limitParam,
                                             available |-> NoParam],
                                  !.paging = parsePaginationParams(pageParam, limitParam)]]

\* result.Items.map(user => ...): one entry of the response
UserView(u) ==
    [id |-> u, email |-> users[u].email,
     borrowingLimit |-> IF users[u].borrowingLimit = 0 THEN DefaultBorrowingLimit
                        ELSE users[u].borrowingLimit,
     currentBorrowedCount |-> users[u].currentBorrowedCount]

\* dynamodb.scan(USERS_TABLE) and the response
ListUsersScan(p) ==
    /\ UNCHANGED <<calls, clock>>
    /\ inv[p].pc = "scanUsers"
    /\ UNCHANGED store
    /\ \E res \in ScanResults(Present(users, UserIds), inv[p].paging.limit) :
          IF ~res.ok THEN Respond(p, 500)
          ELSE RespondWith(p, 200,
                  [items |-> {UserView(u) : u \in res.page},
                   page |-> inv[p].paging.page, limit |-> inv[p].paging.limit,
                   totalItems |-> Cardinality(res.page)])

(* ------------------------------- getUser ------------------------------ *)
\* getUser up to its first await: API key, the id check
InvokeGetUser(p, key, u) ==
    /\ inv[p].pc = "idle"
    /\ calls < MaxCalls
    /\ calls' = calls + 1
    /\ UNCHANGED clock
    /\ UNCHANGED store
    /\ LET req == [Idle(0) EXCEPT !.op = "getUser", !.apiKey = key] IN
       IF ~validateApiKey(key) THEN inv' = [inv EXCEPT ![p] = [req EXCEPT !.status = 401]]
       ELSE IF ~ValidUserIdFormat(u) THEN inv' = [inv EXCEPT ![p] = [req EXCEPT !.status = 400]]
       ELSE inv' = [inv EXCEPT ![p] = [req EXCEPT !.pc = "getUserItem", !.userId = u]]

\* dynamodb.get(USERS_TABLE)
GetUserGet(p) ==
    /\ UNCHANGED <<calls, clock>>
    /\ inv[p].pc = "getUserItem"
    /\ UNCHANGED store
    /\ IF users[inv[p].userId] = NoItem THEN Respond(p, 404)
       ELSE Goto(p, "getUserBorrowed")

\* dynamodb.query(UserIndex) for the active records, and the response
GetUserQuery(p) ==
    /\ UNCHANGED <<calls, clock>>
    /\ inv[p].pc = "getUserBorrowed"
    /\ UNCHANGED store
    /\ LET u == inv[p].userId IN
       RespondWith(p, 200,
          [items |-> {[bookId |-> borrowings[r].bookId,
                       borrowedAt |-> borrowings[r].borrowedAt,
                       dueDate |-> borrowings[r].dueDate] : r \in ActiveOfUser(u)},
           id |-> u])

(* ------------------------------ requests ------------------------------ *)
\* borrowBook / returnBook events: every well-formed one, and one of each
\* kind that is turned away before the first store call
LendingRequests ==
    {[key |-> ValidApiKeyValue, bodyOk |-> TRUE, bookId |-> b, userId |-> u] :
        b \in RequestBookIds, u \in RequestUserIds}
    \cup {[key |-> NoKey, bodyOk |-> TRUE, bookId |-> "bk_000001", userId |-> "usr_000001"],
          [key |-> "wrong-key", bodyOk |-> TRUE, bookId |-> "bk_000001", userId |-> "usr_000001"],
          [key |-> ValidApiKeyValue, bodyOk |-> FALSE, bookId |-> "bk_000001", userId |-> NoUserId],
          [key |-> ValidApiKeyValue, bodyOk |-> TRUE, bookId |-> BadBookId, userId |-> "usr_000001"],
          [key |-> ValidApiKeyValue, bodyOk |-> TRUE, bookId |-> "bk_000001", userId |-> BadUserId],
          [key |-> ValidApiKeyValue, bodyOk |-> TRUE, bookId |-> "bk_000001", userId |-> NoUserId]}

CreateBookRequests ==
    {[key |-> ValidApiKeyValue, bodyOk |-> TRUE, isbn |-> i, totalCopies |-> c] :
        i \in Isbns, c \in -1..MaxCopies}
    \cup {[key |-> NoKey, bodyOk |-> TRUE, isbn |-> "978-0-0000-0001-1", totalCopies |-> 1],
          [key |-> ValidApiKeyValue, bodyOk |-> FALSE, isbn |-> "978-0-0000-0001-1", totalCopies |-> 1],
          [key |-> ValidApiKeyValue, bodyOk |-> TRUE, isbn |-> BadIsbn, totalCopies |-> 1]}

CreateUserRequests ==
    {[key |-> ValidApiKeyValue, bodyOk |-> TRUE, email |-> e] : e \in Emails}
    \cup {[key |-> NoKey, bodyOk |-> TRUE, email |-> "a@x.io"],
          [key |-> ValidApiKeyValue, bodyOk |-> FALSE, email |-> "a@x.io"],
          [key |-> ValidApiKeyValue, bodyOk |-> TRUE, email |-> BadEmail]}

\* page / limit values: not sent, empty, not a number, negative, zero, in
\* range, the largest page size, and one above it
PageParams ==
    {AbsentParam, EmptyParam, TextParam, Numeral(-1), Numeral(0), Numeral(1), Numeral(2),
     Numeral(MaxPageSize), Numeral(MaxPageSize + 1)}

AvailableParams == {NoParam, "true", "false", "yes"}

ListRequests ==
    {[key |-> ValidApiKeyValue, page |-> q, limit |-> AbsentParam, available |-> NoParam] :
        q \in PageParams}
    \cup {[key |-> ValidApiKeyValue, page |-> AbsentParam, limit |-> q, available |-> a] :
            q \in PageParams, a \in AvailableParams}
    \cup {[key |-> k, page |-> AbsentParam, limit |-> AbsentParam, available |-> NoParam] :
            k \in {NoKey, "wrong-key"}}

GetUserRequests ==
    {[key |-> ValidApiKeyValue, userId |-> u] : u \in RequestUserIds \cup {BadUserId}}
    \cup {[key |-> k, userId |-> "usr_000001"] : k \in {NoKey, "wrong-key"}}

(* ------------------------------- Next --------------------------------- *)
Borrow ==
    \/ \E p \in Procs, q \in LendingRequests :
          InvokeBorrow(p, q.key, q.bodyOk, q.bookId, q.userId, <<>>)
    \/ \E p \in Procs : BorrowGetBook(p)
    \/ \E p \in Procs : BorrowGetUser(p)
    \/ \E p \in Procs : BorrowTransact(p)

Return ==
    \/ \E p \in Procs, q \in LendingRequests :
          InvokeReturn(p, q.key, q.bodyOk, q.bookId, q.userId)
    \/ \E p \in Procs : ReturnQuery(p)
    \/ \E p \in Procs : ReturnTransact(p)

Create ==
    \/ \E p \in Procs, q \in CreateBookRequests :
          InvokeCreateBook(p, q.key, q.bodyOk, q.isbn, q.totalCopies)
    \/ \E p \in Procs : CreateBookQuery(p)
    \/ \E p \in Procs : CreateBookPut(p)
    \/ \E p \in Procs, q \in CreateUserRequests :
          InvokeCreateUser(p, q.key, q.bodyOk, q.email)
    \/ \E p \in Procs : CreateUserQuery(p)
    \/ \E p \in Procs : CreateUserHash(p)
    \/ \E p \in Procs : CreateUserPut(p)

Read ==
    \/ \E p \in Procs, q \in ListRequests :
          InvokeListBooks(p, q.key, q.page, q.limit, q.available)
    \/ \E p \in Procs : ListBooksScan(p)
    \/ \E p \in Procs, q \in {x \in ListRequests : x.available = NoParam} :
          InvokeListUsers(p, q.key, q.page, q.limit)
    \/ \E p \in Procs : ListUsersScan(p)
    \/ \E p \in Procs, q \in GetUserRequests : InvokeGetUser(p, q.key, q.userId)
    \/ \E p \in Procs : GetUserGet(p)
    \/ \E p \in Procs : GetUserQuery(p)

\* the lending core: borrowBook and returnBook invocations on the seeded tables
Next == Borrow \/ Return

Spec == Init /\ [][Next]_vars

(* ------------------------- stores at rest ----------------------------- *)
SeededBooks == {"bk_000001", "bk_000002"}
SeededUsers == {"usr_000001", "usr_000002"}

\* the items borrowBook puts and returnBook updates
BorrowingItems ==
    {NewBorrowing(u, b, StartTime, DefaultDurationDays) :
        u \in SeededUsers, b \in SeededBooks}
    \cup {MarkReturned(NewBorrowing(u, b, StartTime, DefaultDurationDays), StartTime) :
            u \in SeededUsers, b \in SeededBooks}

\* the records of a store at rest: at most two, under the first two ids
StoredRecIds == {"brw_000001", "brw_000002"}

RestRecords ==
    {[r \in RecIds |-> IF r \in StoredRecIds THEN f[r] ELSE NoItem] :
        f \in [StoredRecIds -> {NoItem} \cup BorrowingItems]}

ActiveIn(recs, field, v) ==
    Cardinality({r \in RecIds : /\ recs[r] # NoItem
                                /\ recs[r][field] = v
                                /\ recs[r].status = "active"})

\* The tables after some borrows and returns that ran one after the other,
\* no user borrowing a book they already hold: totals t, limits l, records
\* recs, and the two counters as those borrows and returns left them.
AtRest(t, l, recs) ==
    /\ \A r1, r2 \in RecIds :
          (/\ r1 # r2
           /\ recs[r1] # NoItem /\ recs[r1].status = "active"
           /\ recs[r2] # NoItem /\ recs[r2].status = "active")
          => (recs[r1].userId # recs[r2].userId \/ recs[r1].bookId # recs[r2].bookId)
    /\ \A b \in SeededBooks : ActiveIn(recs, "bookId", b) <= t[b]
    /\ \A u \in SeededUsers : ActiveIn(recs, "userId", u) <= l[u]
    /\ books = [b \in BookIds |->
                  IF b \in SeededBooks
                  THEN [isbn |-> SeedIsbn(b), totalCopies |-> t[b],
                        availableCopies |-> t[b] - ActiveIn(recs, "bookId", b)]
                  ELSE NoItem]
    /\ users = [u \in UserIds |->
                  IF u \in SeededUsers
                  THEN [NewUser(SeedEmail(u), l[u]) EXCEPT
                           !.currentBorrowedCount = ActiveIn(recs, "userId", u)]
                  ELSE NoItem]
    /\ borrowings = recs

Running(op, label, b, u, r) ==
    [Idle(0) EXCEPT !.pc = label, !.op = op, !.apiKey = ValidApiKeyValue,
                    !.bookId = b, !.userId = u, !.recId = r,
                    !.days = IF op = "borrow" THEN DefaultDurationDays ELSE 0,
                    !.ts = IF label \in {"borrowTx", "returnTx"} THEN StartTime ELSE 0]

Quiescent == \A p \in Procs : inv[p].pc = "idle"

(* ------------- two borrowers of the last copy (borrowBook) ------------ *)
\* One copy of bk_000001 is left; usr_000001 and usr_000002, both under their
\* limit, have each sent a well-formed borrow request for it.
InitLastCopy ==
    /\ \E t \in [SeededBooks -> 1..MaxCopies], l \in [SeededUsers -> 1..MaxLimit],
          recs \in RestRecords :
          /\ AtRest(t, l, recs)
          /\ t["bk_000001"] - ActiveIn(recs, "bookId", "bk_000001") = 1
          /\ \A u \in SeededUsers : ActiveIn(recs, "userId", u) < l[u]
    /\ inv = [p \in Procs |->
                Running("borrow", "getBook", "bk_000001",
                        IF p = "p1" THEN "usr_000001" ELSE "usr_000002", "")]
    /\ calls = MaxCalls
    /\ clock = StartTime

NextLastCopy ==
    \/ \E p \in Procs : BorrowGetBook(p)
    \/ \E p \in Procs : BorrowGetUser(p)
    \/ \E p \in Procs : BorrowTransact(p)

SpecLastCopy == InitLastCopy /\ [][NextLastCopy]_vars

(* ----------- two returns of the same record (returnBook) -------------- *)
\* usr_000001 holds bk_000001 under record brw_000001; two return requests
\* for it have both found that record and are about to submit their writes.
\* The other record is anything earlier borrows and returns can have left.
DoubleReturnStart ==
    /\ \E t \in [SeededBooks -> 1..MaxCopies], l \in [SeededUsers -> 1..MaxLimit],
          recs \in RestRecords :
          /\ AtRest(t, l, recs)
          /\ recs["brw_000001"] = NewBorrowing("usr_000001", "bk_000001", StartTime, DefaultDurationDays)
    /\ inv = [p \in Procs |->
                Running("return", "returnTx", "bk_000001", "usr_000001", "brw_000001")]

InitDoubleReturn == DoubleReturnStart /\ calls = MaxCalls /\ clock = StartTime

NextDoubleReturn == \E p \in Procs : ReturnTransact(p)

SpecDoubleReturn == InitDoubleReturn /\ [][NextDoubleReturn]_vars

(* ------------------- one borrow on its own (borrowBook) --------------- *)
\* The tables are at rest; one well-formed
\* borrow request for a seeded book and user is about to read the book, and
\* no other invocation runs or starts.
InitSoloBorrow ==
    /\ \E t \in [SeededBooks -> 1..MaxCopies], l \in [SeededUsers -> 1..MaxLimit],
          recs \in RestRecords :
          AtRest(t, l, recs)
    /\ \E b \in SeededBooks, u \in SeededUsers :
          inv = [p \in Procs |->
                    IF p = "p1" THEN Running("borrow", "getBook", b, u, "") ELSE Idle(0)]
    /\ calls = MaxCalls
    /\ clock = StartTime

SpecSoloBorrow == InitSoloBorrow /\ [][NextLastCopy]_vars

(* ------- one return on its own after a double return (returnBook) ----- *)
\* As in the double return above, but one more return request may be sent,
\* and is sent only once both earlier ones have answered.
InitReturnAfterRace == DoubleReturnStart /\ calls = MaxCalls - 1 /\ clock = StartTime

NextReturnAfterRace ==
    \/ \E p \in Procs : ReturnTransact(p)
    \/ \E p \in Procs : ReturnQuery(p)
    \/ /\ Quiescent
       /\ \E p \in Procs, q \in LendingRequests :
             InvokeReturn(p, q.key, q.bodyOk, q.bookId, q.userId)

SpecReturnAfterRace == InitReturnAfterRace /\ [][NextReturnAfterRace]_vars

(* ------------- the order of borrowBook's checks (borrowBook) ---------- *)
\* The tables are at rest; p1 has a borrow request of the user id that is not
\* in the table, p2 one of any user, each for any book id; both are about to
\* read the book.
InitBorrowOrder ==
    /\ \E t \in [SeededBooks -> 1..MaxCopies], l \in [SeededUsers -> 1..MaxLimit],
          recs \in RestRecords : AtRest(t, l, recs)
    /\ \E b1 \in RequestBookIds, b2 \in RequestBookIds, u2 \in RequestUserIds :
          inv = [p \in Procs |->
                    IF p = "p1" THEN Running("borrow", "getBook", b1, "usr_00000f", "")
                    ELSE Running("borrow", "getBook", b2, u2, "")]
    /\ calls = MaxCalls
    /\ clock = StartTime

SpecBorrowOrder == InitBorrowOrder /\ [][NextLastCopy]_vars

(* ---------------- borrowing for a number of days (borrowBook) --------- *)
\* body.durationDays: absent, zero, negative, the two ends of the range,
\* and one past it
DurationInputs ==
    {<<>>, <<0>>, <<-1>>, <<MinDurationDays>>, <<MaxDurationDays>>, <<MaxDurationDays + 1>>}

DurationRequests ==
    {[key |-> ValidApiKeyValue, bodyOk |-> TRUE, bookId |-> b, userId |-> u,
      durationDays |-> d] : b \in RequestBookIds, u \in RequestUserIds, d \in DurationInputs}

\* The deployed tables, and one borrow request still to come.
InitDuration ==
    /\ Deployed
    /\ calls = MaxCalls - 1
    /\ clock = StartTime

NextDuration ==
    \/ \E p \in Procs, q \in DurationRequests :
          InvokeBorrow(p, q.key, q.bodyOk, q.bookId, q.userId, q.durationDays)
    \/ \E p \in Procs : BorrowGetBook(p)
    \/ \E p \in Procs : BorrowGetUser(p)
    \/ \E p \in Procs : BorrowTransact(p)
    \/ Tick

SpecDuration == InitDuration /\ [][NextDuration]_vars

(* ------------------- lending while the days pass ---------------------- *)
NextTimed == Borrow \/ Return \/ Tick

SpecTimed == Init /\ [][NextTimed]_vars

(* -------------------- two requests to any handlers -------------------- *)
\* The deployed tables, no handler running, and two requests still to come.
InitApi ==
    /\ Deployed
    /\ calls = MaxCalls - 2
    /\ clock = StartTime

NextApi == Borrow \/ Return \/ Create \/ Read

SpecApi == InitApi /\ [][NextApi]_vars

(* ------------------ creating books and users ------------------------- *)
\* A fresh deployment: the three tables are empty and no handler runs.
InitCreate ==
    /\ books = [b \in BookIds |-> NoItem]
    /\ users = [u \in UserIds |-> NoItem]
    /\ borrowings = [r \in RecIds |-> NoItem]
    /\ inv = [p \in Procs |-> Idle(0)]
    /\ calls = 0
    /\ clock = StartTime

\* createBook and createUser invocations, in any interleaving
SpecCreate == InitCreate /\ [][Create]_vars

(* --------- a caller that borrows again after a 409 (borrowBook) ------- *)
\* The caller sends borrowBook(bk_000001, usr_000001) through p1, and sends
\* it again, from scratch, whenever the answer was 409; the competing borrow
\* and return requests come through p2. MaxCalls bounds all of them.
CallerBorrow ==
    /\ inv["p1"].status \in {0, 409}
    /\ InvokeBorrow("p1", ValidApiKeyValue, TRUE, "bk_000001", "usr_000001", <<>>)

NextRetry ==
    \/ CallerBorrow
    \/ \E q \in LendingRequests :
          InvokeBorrow("p2", q.key, q.bodyOk, q.bookId, q.userId, <<>>)
    \/ \E q \in LendingRequests :
          InvokeReturn("p2", q.key, q.bodyOk, q.bookId, q.userId)
    \/ \E p \in Procs : BorrowGetBook(p)
    \/ \E p \in Procs : BorrowGetUser(p)
    \/ \E p \in Procs : BorrowTransact(p)
    \/ \E p \in Procs : ReturnQuery(p)
    \/ \E p \in Procs : ReturnTransact(p)

SpecRetry == Init /\ [][NextRetry]_vars

(* ------------- a borrow and then its return (both handlers) ----------- *)
\* The tables are at rest with one record stored, under brw_000002;
\* usr_000001 holds no copy of bk_000001. One borrow
\* request borrowBook(bk_000001, usr_000001) is about to read the book; once
\* it has answered 200 the return request for the same book and user is
\* sent, and no other invocation runs or starts.
InitRoundTrip ==
    /\ \E t \in [SeededBooks -> 1..MaxCopies], l \in [SeededUsers -> 1..MaxLimit],
          recs \in RestRecords :
          /\ AtRest(t, l, recs)
          /\ recs["brw_000001"] = NoItem
          /\ recs["brw_000002"] # NoItem
          /\ recs["brw_000002"] # NewBorrowing("usr_000001", "bk_000001", StartTime, DefaultDurationDays)
    /\ inv = [p \in Procs |->
                IF p = "p1" THEN Running("borrow", "getBook", "bk_000001", "usr_000001", "")
                ELSE Idle(0)]
    /\ calls = MaxCalls - 1
    /\ clock = StartTime

NextRoundTrip ==
    \/ \E p \in Procs : BorrowGetBook(p)
    \/ \E p \in Procs : BorrowGetUser(p)
    \/ \E p \in Procs : BorrowTransact(p)
    \/ /\ inv["p1"].op = "borrow" /\ inv["p1"].status = 200
       /\ InvokeReturn("p1", ValidApiKeyValue, TRUE, "bk_000001", "usr_000001")
    \/ \E p \in Procs : ReturnQuery(p)
    \/ \E p \in Procs : ReturnTransact(p)

SpecRoundTrip == InitRoundTrip /\ [][NextRoundTrip]_vars

(* --------- two borrowers of a book with k copies (borrowBook) --------- *)
\* The tables are at rest and no copy of bk_000001 is out, so that
\* availableCopies = totalCopies = k; usr_000001 and usr_000002, both under
\* their limit, have each sent a well-formed borrow request for it.
InitCopiesRace ==
    /\ \E t \in [SeededBooks -> 1..MaxCopies], l \in [SeededUsers -> 1..MaxLimit],
          recs \in RestRecords :
          /\ AtRest(t, l, recs)
          /\ ActiveIn(recs, "bookId", "bk_000001") = 0
          /\ \A u \in SeededUsers : ActiveIn(recs, "userId", u) < l[u]
    /\ inv = [p \in Procs |->
                Running("borrow", "getBook", "bk_000001",
                        IF p = "p1" THEN "usr_000001" ELSE "usr_000002", "")]
    /\ calls = MaxCalls
    /\ clock = StartTime

SpecCopiesRace == InitCopiesRace /\ [][NextLastCopy]_vars

(* --------------- two create requests on empty tables ------------------ *)
\* A fresh deployment with two createBook / createUser requests to come.
InitCreatePair ==
    /\ books = [b \in BookIds |-> NoItem]
    /\ users = [u \in UserIds |-> NoItem]
    /\ borrowings = [r \in RecIds |-> NoItem]
    /\ inv = [p \in Procs |-> Idle(0)]
    /\ calls = MaxCalls - 2
    /\ clock = StartTime

SpecCreatePair == InitCreatePair /\ [][Create]_vars

(* ---------------- store calls that return (both handlers) ------------ *)
\* Every store call a handler awaits returns: an invocation that can take
\* its next step takes it at some time.
StoreCallsReturn ==
    \A p \in Procs :
        /\ WF_vars(BorrowGetBook(p))
        /\ WF_vars(BorrowGetUser(p))
        /\ WF_vars(BorrowTransact(p))
        /\ WF_vars(ReturnQuery(p))
        /\ WF_vars(ReturnTransact(p))

\* The tables with the first book lent, and two borrow or return requests
\* to come.
InitLent ==
    /\ Lent
    /\ calls = MaxCalls - 2
    /\ clock = StartTime

SpecFair == InitLent /\ [][Next]_vars /\ StoreCallsReturn

(* ============================== claims ================================ *)

\* C1: at rest, every book has availableCopies = totalCopies minus the
\* number of its active borrowing records.
BookCounterMatchesRecords ==
    Quiescent =>
        \A b \in Present(books, BookIds) :
            books[b].availableCopies = books[b].totalCopies - Cardinality(ActiveOfBook(b))

\* C2: at rest, every user's currentBorrowedCount is the number of that
\* user's active borrowing records.
UserCounterMatchesRecords ==
    Quiescent =>
        \A u \in Present(users, UserIds) :
            users[u].currentBorrowedCount = Cardinality(ActiveOfUser(u))

\* C3: at rest, no user's currentBorrowedCount exceeds the user's
\* borrowingLimit, concurrent borrows by that user included.
LimitNeverExceeded ==
    Quiescent =>
        \A u \in Present(users, UserIds) :
            users[u].currentBorrowedCount <= users[u].borrowingLimit

\* C4: of two concurrent borrows of a last copy by two users, one answers
\* 200 and the other 409, and availableCopies ends at 0 and is never negative.
LastCopyOneWinner ==
    /\ books["bk_000001"].availableCopies >= 0
    /\ Quiescent =>
          /\ \E p, q \in Procs : inv[p].status = 200 /\ inv[q].status = 409
          /\ books["bk_000001"].availableCopies = 0

LastCopyBothAnswered ==
    /\ Quiescent
    /\ \E p, q \in Procs : inv[p].status = 200 /\ inv[q].status = 409
    /\ books["bk_000001"].availableCopies = 0

\* C5: of two concurrent returns of the same active record, one answers 200
\* and the other 409, and availableCopies goes up exactly once (so it again
\* equals totalCopies minus the book's active records), whatever the user's
\* currentBorrowedCount.
DoubleReturnOneWinner ==
    Quiescent =>
        /\ \E p, q \in Procs : inv[p].status = 200 /\ inv[q].status = 409
        /\ books["bk_000001"].availableCopies =
              books["bk_000001"].totalCopies - Cardinality(ActiveOfBook("bk_000001"))

\* C6: no (userId, bookId) pair ever has more than one active record.
OneActivePerPair ==
    \A u \in UserIds, b \in BookIds : Cardinality(ActiveRecords(u, b)) <= 1

\* C7: every book always has 0 <= availableCopies <= totalCopies.
AvailableWithinTotal ==
    \A b \in Present(books, BookIds) :
        /\ 0 <= books[b].availableCopies
        /\ books[b].availableCopies <= books[b].totalCopies

\* C8: the three tables change only in a step by which a borrowBook or
\* returnBook invocation answers 200; an invocation answering 400, 401, 404,
\* 409 or 500 has changed nothing.
OnlySuccessWrites ==
    [][store' # store =>
          \E p \in Procs :
              /\ inv[p].op \in {"borrow", "return"}
              /\ inv[p].pc # "idle"
              /\ inv'[p].pc = "idle"
              /\ inv'[p].status = 200
              /\ \A q \in Procs \ {p} : inv'[q] = inv[q]]_vars

RefusedAfterOtherSucceeded ==
    \E p, q \in Procs :
        /\ inv[p].pc = "idle" /\ inv[p].op = "borrow" /\ inv[p].status = 409
        /\ inv[q].pc = "idle" /\ inv[q].op = "return" /\ inv[q].status = 404
        /\ \E r \in RecIds : borrowings[r] # NoItem

\* C9: a record's status goes (none) -> active -> returned only: a returned
\* record stays returned, a new record starts active, and no record is ever
\* stored with status overdue.
StatusLifecycle ==
    [][\A r \in RecIds :
          /\ (borrowings[r] # NoItem /\ borrowings[r].status = "returned")
                => (borrowings'[r] # NoItem /\ borrowings'[r].status = "returned")
          /\ (borrowings[r] = NoItem /\ borrowings'[r] # NoItem)
                => borrowings'[r].status = "active"
          /\ borrowings'[r] # NoItem => borrowings'[r].status # "overdue"]_vars

\* C10: a borrow that has found its book available and then reads a user
\* whose currentBorrowedCount equals borrowingLimit answers 409 and changes
\* no table.
LimitReachedRefused ==
    [][\A p \in Procs :
          (/\ inv[p].pc = "getUser"
           /\ users[inv[p].userId] # NoItem
           /\ users[inv[p].userId].currentBorrowedCount = users[inv[p].userId].borrowingLimit
           /\ inv'[p] # inv[p])
          => (inv'[p].pc = "idle" /\ inv'[p].status = 409 /\ store' = store)]_vars

LimitReachedSeen ==
    \E p \in Procs, u \in Present(users, UserIds) :
        /\ inv[p].pc = "idle" /\ inv[p].op = "borrow" /\ inv[p].status = 409
        /\ users[u].currentBorrowedCount = users[u].borrowingLimit
        /\ \A b \in Present(books, BookIds) : books[b].availableCopies > 0

\* the step taken is a step of invocation p
Steps(p) == inv'[p] # inv[p]

\* invocation p ends in this step with the given status code
Answers(p, code) == inv'[p].pc = "idle" /\ inv'[p].status = code

Answered(p, op, code) == inv[p].pc = "idle" /\ inv[p].op = op /\ inv[p].status = code

\* C11: a borrow that reads an existing book with availableCopies = 0
\* answers 409 and changes no table.
UnavailableRefused ==
    [][\A p \in Procs :
          (/\ inv[p].pc = "getBook"
           /\ books[inv[p].bookId] # NoItem
           /\ books[inv[p].bookId].availableCopies = 0
           /\ Steps(p))
          => (Answers(p, 409) /\ store' = store)]_vars

UnavailableSeen ==
    \E p \in Procs :
        /\ Answered(p, "borrow", 409)
        /\ \E b \in Present(books, BookIds) : books[b].availableCopies = 0
        /\ \A u \in Present(users, UserIds) :
              users[u].currentBorrowedCount < users[u].borrowingLimit

\* C12: a return whose query finds no active record of that user for that
\* book answers 404 and changes no table, also when the record was returned
\* before or the book is borrowed by somebody else.
NoActiveRecordNotFound ==
    [][\A p \in Procs :
          (/\ inv[p].pc = "queryRec"
           /\ ActiveRecords(inv[p].userId, inv[p].bookId) = {}
           /\ Steps(p))
          => (Answers(p, 404) /\ store' = store)]_vars

ReturnedTwiceSeen ==
    \E p \in Procs :
        /\ Answered(p, "return", 404)
        /\ \E r \in RecIds : borrowings[r] # NoItem /\ borrowings[r].status = "returned"

\* C13: a borrow answers 404 and changes no table when its book id is not
\* in the table, and when the book is there and available but the user id
\* is not in the table.
MissingEntityNotFound ==
    [][\A p \in Procs :
          (/\ \/ inv[p].pc = "getBook" /\ books[inv[p].bookId] = NoItem
              \/ inv[p].pc = "getUser" /\ users[inv[p].userId] = NoItem
           /\ Steps(p))
          => (Answers(p, 404) /\ store' = store)]_vars

BorrowNotFoundSeen ==
    \E p, q \in Procs :
        /\ p # q
        /\ Answered(p, "borrow", 404)
        /\ Answered(q, "borrow", 200)

\* C14: a borrow running alone on an existing book with availableCopies > 0
\* and an existing user with currentBorrowedCount < borrowingLimit answers 200,
\* and its whole effect is: availableCopies - 1, currentBorrowedCount + 1, and
\* one new record (under an id no record had) for that user and book, active.
SoloBorrowEffect ==
    [][\A p \in Procs :
          LET b == inv[p].bookId
              u == inv[p].userId
              r == inv[p].recId
          IN (/\ inv[p].pc \in {"getBook", "getUser", "borrowTx"}
              /\ \A q \in Procs \ {p} : inv[q].pc = "idle"
              /\ books[b] # NoItem /\ books[b].availableCopies > 0
              /\ users[u] # NoItem
              /\ users[u].currentBorrowedCount < users[u].borrowingLimit
              /\ Steps(p))
             => /\ inv'[p].pc = "idle" => inv'[p].status = 200
                /\ inv[p].pc = "borrowTx" =>
                      /\ Answers(p, 200)
                      /\ books' = [books EXCEPT ![b].availableCopies = @ - 1]
                      /\ users' = [users EXCEPT ![u].currentBorrowedCount = @ + 1]
                      /\ borrowings[r] = NoItem
                      /\ borrowings' = [borrowings EXCEPT ![r] = NewBorrowing(u, b, inv[p].ts, inv[p].days)]]_vars

\* C15: a return running alone while exactly one active record exists for
\* its book and user answers 200, and its whole effect is: that record
\* returned with returnedAt set, availableCopies + 1, currentBorrowedCount - 1.
SoloReturnEffect ==
    [][\A p \in Procs :
          LET b == inv[p].bookId
              u == inv[p].userId
              r == inv[p].recId
          IN (/\ inv[p].pc \in {"queryRec", "returnTx"}
              /\ calls = MaxCalls
              /\ \A q \in Procs \ {p} : inv[q].pc = "idle"
              /\ Cardinality(ActiveRecords(u, b)) = 1
              /\ Steps(p))
             => /\ inv'[p].pc = "idle" => inv'[p].status = 200
                /\ inv[p].pc = "returnTx" =>
                      /\ Answers(p, 200)
                      /\ r \in ActiveRecords(u, b)
                      /\ borrowings' = [borrowings EXCEPT ![r].status = "returned",
                                                          ![r].returnedAt = inv[p].ts]
                      /\ books' = [books EXCEPT ![b].availableCopies = @ + 1]
                      /\ users' = [users EXCEPT ![u].currentBorrowedCount = @ - 1]]_vars

\* the guard of a transaction as the store stands
BorrowWriteAccepted(p) ==
    /\ BorrowBookCondition(books[inv[p].bookId])
    /\ BorrowUserCondition(users[inv[p].userId])

ReturnWriteAccepted(p) ==
    /\ ReturnRecordCondition(borrowings[inv[p].recId])
    /\ ReturnBookCondition(books[inv[p].bookId])
    /\ ReturnUserCondition(users[inv[p].userId])

\* C16: a borrow or return whose transaction is rejected by one of its
\* write-time conditions answers 409, never 200, and writes nothing.
RejectedWriteConflict ==
    [][\A p \in Procs :
          (/\ \/ inv[p].pc = "borrowTx" /\ ~BorrowWriteAccepted(p)
              \/ inv[p].pc = "returnTx" /\ ~ReturnWriteAccepted(p)
           /\ Steps(p))
          => (Answers(p, 409) /\ store' = store)]_vars

RejectedReturnSeen ==
    \E p, q \in Procs :
        /\ p # q
        /\ Answered(p, "return", 409)
        /\ Answered(q, "return", 200)

\* the three writes of one borrowBook / returnBook transaction, all applied
BorrowWrites(p) ==
    LET b == inv[p].bookId
        u == inv[p].userId
        r == inv[p].recId
    IN /\ borrowings' = [borrowings EXCEPT ![r] = NewBorrowing(u, b, inv[p].ts, inv[p].days)]
       /\ books' = [books EXCEPT ![b].availableCopies = @ - 1]
       /\ users' = [users EXCEPT ![u].currentBorrowedCount = @ + 1]

ReturnWrites(p) ==
    LET b == inv[p].bookId
        u == inv[p].userId
        r == inv[p].recId
    IN /\ borrowings' = [borrowings EXCEPT ![r].status = "returned", ![r].returnedAt = inv[p].ts]
       /\ books' = [books EXCEPT ![b].availableCopies = @ + 1]
       /\ users' = [users EXCEPT ![u].currentBorrowedCount = @ - 1]

\* C17: every step leaves the three tables as they were, or applies all
\* three writes of one borrow, or all three writes of one return; no step
\* (hence no state between steps of concurrent invocations) shows a part.
AllOrNothing ==
    [][\/ store' = store
       \/ \E p \in Procs :
             \/ inv[p].pc = "borrowTx" /\ BorrowWrites(p)
             \/ inv[p].pc = "returnTx" /\ ReturnWrites(p)]_vars

CommitBesideAbortSeen ==
    \E p, q \in Procs, r \in RecIds :
        /\ p # q
        /\ Answered(p, "borrow", 200)
        /\ Answered(q, "borrow", 409)
        /\ borrowings[r] # NoItem /\ borrowings[r].status = "active"
        /\ \A r2 \in RecIds \ {r} : borrowings[r2] = NoItem
        /\ books[borrowings[r].bookId].availableCopies
              = books[borrowings[r].bookId].totalCopies - 1
        /\ users[borrowings[r].userId].currentBorrowedCount = 1

\* the outcomes of a borrowBook / returnBook step
NotFoundOutcome(p) ==
    \/ inv[p].pc = "getBook" /\ books[inv[p].bookId] = NoItem
    \/ inv[p].pc = "getUser" /\ users[inv[p].userId] = NoItem
    \/ inv[p].pc = "queryRec" /\ ActiveRecords(inv[p].userId, inv[p].bookId) = {}

ConflictOutcome(p) ==
    \/ /\ inv[p].pc = "getBook"
       /\ books[inv[p].bookId] # NoItem
       /\ books[inv[p].bookId].availableCopies <= 0
    \/ /\ inv[p].pc = "getUser"
       /\ users[inv[p].userId] # NoItem
       /\ users[inv[p].userId].currentBorrowedCount >= users[inv[p].userId].borrowingLimit
    \/ inv[p].pc = "borrowTx" /\ ~BorrowWriteAccepted(p)
    \/ inv[p].pc = "returnTx" /\ ~ReturnWriteAccepted(p)

Committed(p) ==
    \/ inv[p].pc = "borrowTx" /\ BorrowWrites(p)
    \/ inv[p].pc = "returnTx" /\ ReturnWrites(p)

\* C18: a borrow or return answers 200 exactly in the step in which its
\* transaction commits, 404 for a missing book, a missing user or no active
\* record, and 409 for an unavailable book, a reached limit or a rejected
\* transaction.
StatusMapping ==
    [][\A p \in Procs :
          (inv[p].pc # "idle" /\ inv[p].op \in {"borrow", "return"} /\ Steps(p))
          => /\ Answers(p, 200) <=> Committed(p)
             /\ NotFoundOutcome(p) => Answers(p, 404)
             /\ ConflictOutcome(p) => Answers(p, 409)]_vars

ReturnOkBesideConflictSeen ==
    \E p, q \in Procs :
        /\ p # q
        /\ Answered(p, "return", 200)
        /\ Answered(q, "borrow", 409)

\* C19: no two stored users have the same email.
UniqueEmails ==
    \A u1, u2 \in Present(users, UserIds) :
        u1 # u2 => users[u1].email # users[u2].email

\* C20: no two stored books have the same isbn.
UniqueIsbns ==
    \A b1, b2 \in Present(books, BookIds) :
        b1 # b2 => books[b1].isbn # books[b2].isbn

\* C21: every stored borrowing record is due d days after it was borrowed,
\* for some d from 1 to 30.
DueDateWithinRange ==
    \A r \in Present(borrowings, RecIds) :
        \E d \in MinDurationDays..MaxDurationDays :
            borrowings[r].dueDate = AddDays(borrowings[r].borrowedAt, d)

\* C22: every stored book has totalCopies >= 1.
StoredCopiesPositive ==
    \A b \in Present(books, BookIds) : books[b].totalCopies >= 1

\* C23: a return whose query lists more than one active record of its user
\* for its book goes on with the one borrowed earliest.
EarliestBorrowingReturned ==
    [][\A p \in Procs :
          LET found == ActiveRecords(inv[p].userId, inv[p].bookId)
          IN (/\ inv[p].pc = "queryRec"
              /\ Cardinality(found) > 1
              /\ Steps(p))
             => \A r \in found :
                   borrowings[inv'[p].recId].borrowedAt <= borrowings[r].borrowedAt]_vars

\* C27: a return transaction aimed at a record that is already 'returned'
\* does not commit: it writes nothing.
ReturnedNeverRewritten ==
    [][\A p \in Procs :
          (/\ inv[p].pc = "returnTx"
           /\ borrowings[inv[p].recId] # NoItem
           /\ borrowings[inv[p].recId].status = "returned"
           /\ Steps(p))
          => store' = store]_vars

\* C28: no user's currentBorrowedCount is ever negative.
CountNeverNegative ==
    \A u \in Present(users, UserIds) : users[u].currentBorrowedCount >= 0

CountGuardSeen ==
    \E p \in Procs, r \in RecIds :
        /\ Answered(p, "return", 409)
        /\ borrowings[r] # NoItem /\ borrowings[r].status = "returned"
        /\ users[borrowings[r].userId].currentBorrowedCount = 0

\* C29: a borrow reports the first check that fails, in the order book
\* exists, availableCopies > 0, user exists, currentBorrowedCount <
\* borrowingLimit: a missing book is 404 and an unavailable book 409 whatever
\* the user's state, a missing user 404 only after that.
PreconditionOrder ==
    [][\A p \in Procs :
          LET book == books[inv[p].bookId]
              user == users[inv[p].userId]
          IN /\ (inv[p].pc = "getBook" /\ Steps(p)) =>
                   IF book = NoItem THEN Answers(p, 404)
                   ELSE IF book.availableCopies <= 0 THEN Answers(p, 409)
                   ELSE inv'[p].pc = "getUser"
             /\ (inv[p].pc = "getUser" /\ Steps(p)) =>
                   IF user = NoItem THEN Answers(p, 404)
                   ELSE IF user.currentBorrowedCount >= user.borrowingLimit
                        THEN Answers(p, 409)
                        ELSE inv'[p].pc = "borrowTx"]_vars

\* the request of the user that does not exist was refused for its book
UnavailableBeforeMissingUserSeen == Answered("p1", "borrow", 409)

\* C30: a transaction step ends its invocation, with 409 when nothing was
\* written; an invocation comes to its transaction once, from its last read,
\* and reads start only with a new invocation.
SingleSubmission ==
    [][\A p \in Procs :
          Steps(p) =>
             /\ inv[p].pc \in {"borrowTx", "returnTx"} =>
                   /\ inv'[p].pc = "idle"
                   /\ store' = store => Answers(p, 409)
             /\ inv'[p].pc = "borrowTx" => inv[p].pc = "getUser"
             /\ inv'[p].pc = "returnTx" => inv[p].pc = "queryRec"
             /\ inv'[p].pc \in {"getBook", "queryRec"} =>
                   inv[p].pc = "idle" /\ calls' = calls + 1]_vars

RejectionEndedSeen ==
    /\ Quiescent
    /\ calls = MaxCalls
    /\ \E p, q \in Procs : Answered(p, "return", 409) /\ Answered(q, "return", 200)

\* C24: an invocation of any handler whose X-API-Key is missing or is not
\* the configured key answers 401 in its first step, before any store call,
\* and writes nothing.
UnauthorizedRefused ==
    [][\A p \in Procs :
          (/\ Steps(p)
           /\ inv'[p].op # "none"
           /\ ~validateApiKey(inv'[p].apiKey))
          => (inv[p].pc = "idle" /\ Answers(p, 401) /\ store' = store)]_vars

UnauthorizedSeen ==
    \E p \in Procs :
        /\ inv[p].op \in {"listUsers", "createUser", "getUser", "listBooks",
                          "createBook", "borrow", "return"}
        /\ inv[p].apiKey = "wrong-key"
        /\ inv[p].pc = "idle" /\ inv[p].status = 401

\* C25: whatever page and limit are sent, parsePaginationParams gives an
\* integer page >= 1, an integer limit from 1 to 100 and offset =
\* (page - 1) * limit, with page 1 and limit 20 when they are not sent.
PaginationWellFormed ==
    \A p \in Procs :
        inv[p].pc \in {"scanBooks", "scanUsers"} =>
            LET g == inv[p].paging
                q == inv[p].query
            IN /\ ~g.page.nan /\ g.page.val >= 1
               /\ ~g.limit.nan /\ g.limit.val \in 1..MaxPageSize
               /\ ~g.offset.nan /\ g.offset.val = (g.page.val - 1) * g.limit.val
               /\ q.page = AbsentParam => g.page.val = DefaultPage
               /\ q.limit = AbsentParam => g.limit.val = DefaultPageSize

\* C26: listBooks with available=true returns only books with
\* availableCopies > 0, and all of them when the scanned page is the whole
\* table; with available=false only books with availableCopies = 0; and each
\* returned book's 'available' is true exactly when its availableCopies > 0.
AvailableFilterCorrect ==
    [][\A p \in Procs :
          (inv[p].pc = "scanBooks" /\ Steps(p) /\ Answers(p, 200)) =>
             LET items == inv'[p].body.items
                 want == inv[p].query.available
                 all == Present(books, BookIds)
             IN /\ \A i \in items : i.available <=> i.availableCopies > 0
                /\ want = "true" =>
                      /\ \A i \in items : books[i.id].availableCopies > 0
                      /\ (~inv[p].paging.limit.nan
                             /\ inv[p].paging.limit.val >= Cardinality(all)) =>
                            {i.id : i \in items} = {b \in all : books[b].availableCopies > 0}
                /\ want = "false" =>
                      \A i \in items : books[i.id].availableCopies = 0]_vars

\* C31: a caller that sends its borrow again after each 409 of a rejected
\* write, against the competing invocations, finds the book and user
\* invariants in place whenever one of its attempts has answered: every
\* availableCopies within 0..totalCopies and every currentBorrowedCount
\* within 0..borrowingLimit.
AttemptsKeepInvariants ==
    (inv["p1"].pc = "idle" /\ inv["p1"].op = "borrow") =>
        /\ \A b \in Present(books, BookIds) :
              books[b].availableCopies \in 0..books[b].totalCopies
        /\ \A u \in Present(users, UserIds) :
              users[u].currentBorrowedCount \in 0..users[u].borrowingLimit

\* C32: a step of a borrowBook or returnBook invocation for (bookId, userId)
\* leaves every other book and every other user as it was, changes no
\* totalCopies and no borrowingLimit, and leaves every stored borrowing
\* record as it was, but for the one a return marks returned (the record a
\* borrow inserts was not stored before).
LendingFrame ==
    [][\A p \in Procs :
          (inv[p].pc \in {"getBook", "getUser", "borrowTx", "queryRec", "returnTx"} /\ Steps(p))
          => LET b == inv[p].bookId
                 u == inv[p].userId
                 r == inv[p].recId
             IN /\ \A b2 \in BookIds \ {b} : books'[b2] = books[b2]
                /\ \A u2 \in UserIds \ {u} : users'[u2] = users[u2]
                /\ \A b2 \in Present(books, BookIds) :
                      books'[b2] # NoItem /\ books'[b2].totalCopies = books[b2].totalCopies
                /\ \A u2 \in Present(users, UserIds) :
                      users'[u2] # NoItem /\ users'[u2].borrowingLimit = users[u2].borrowingLimit
                /\ \A r2 \in Present(borrowings, RecIds) :
                      \/ borrowings'[r2] = borrowings[r2]
                      \/ /\ inv[p].pc = "returnTx"
                         /\ r2 = r
                         /\ borrowings'[r2] = MarkReturned(borrowings[r2], inv[p].ts)]_vars

\* C33: when a successful borrowBook(bk_000001, usr_000001) has been
\* followed, with nothing in between, by a successful return of the same book
\* and user, one record has been added to the one that was stored, it is a
\* returned record of that user and book, and availableCopies and
\* currentBorrowedCount are back at their values before the borrow, which
\* are the ones the stored records give.
RoundTripRestores ==
    Answered("p1", "return", 200) =>
        /\ Cardinality(Present(borrowings, RecIds)) = 2
        /\ \E r \in Present(borrowings, RecIds) :
              /\ borrowings[r].userId = "usr_000001"
              /\ borrowings[r].bookId = "bk_000001"
              /\ borrowings[r].status = "returned"
              /\ borrowings[r].returnedAt = clock
        /\ books["bk_000001"].availableCopies =
              books["bk_000001"].totalCopies - Cardinality(ActiveOfBook("bk_000001"))
        /\ users["usr_000001"].currentBorrowedCount = Cardinality(ActiveOfUser("usr_000001"))

\* C34: when the borrows of m distinct users, each under their limit, of a
\* book with availableCopies = k >= 1 have all answered, min(k, m) of them
\* have answered 200 and the others 409, and availableCopies is
\* k - min(k, m), whatever the interleaving (here m is the two invocations,
\* and k is totalCopies, no copy being out at the start).
CopiesRaceOutcome ==
    Quiescent =>
        LET k == books["bk_000001"].totalCopies
            m == Cardinality(Procs)
            served == IF k < m THEN k ELSE m
        IN /\ Cardinality({p \in Procs : inv[p].status = 200}) = served
           /\ \A p \in Procs : inv[p].status \in {200, 409}
           /\ books["bk_000001"].availableCopies = k - served

CopiesRaceBothServed ==
    /\ Quiescent
    /\ books["bk_000001"].totalCopies = 2
    /\ \A p \in Procs : inv[p].status = 200
    /\ books["bk_000001"].availableCopies = 0

\* what the transactWrite of invocation i (of borrowBook or of returnBook)
\* answers and leaves behind when it finds the tables as in st
TransactOutcome(st, i) ==
    LET b == i.bookId
        u == i.userId
        r == i.recId
    IN IF i.pc = "borrowTx"
       THEN IF BorrowBookCondition(st.books[b]) /\ BorrowUserCondition(st.users[u])
            THEN [status |-> 200,
                  borrowings |-> [st.borrowings EXCEPT ![r] = NewBorrowing(u, b, i.ts, i.days)],
                  books |-> [st.books EXCEPT ![b].availableCopies = @ - 1],
                  users |-> [st.users EXCEPT ![u].currentBorrowedCount = @ + 1]]
            ELSE [st EXCEPT !.status = 409]
       ELSE IF /\ ReturnRecordCondition(st.borrowings[r])
               /\ ReturnBookCondition(st.books[b])
               /\ ReturnUserCondition(st.users[u])
            THEN [status |-> 200,
                  borrowings |-> [st.borrowings EXCEPT ![r] = MarkReturned(@, i.ts)],
                  books |-> [st.books EXCEPT ![b].availableCopies = @ + 1],
                  users |-> [st.users EXCEPT ![u].currentBorrowedCount = @ - 1]]
            ELSE [st EXCEPT !.status = 409]

\* C35: two borrowBook or returnBook invocations of different books and
\* different users that are both about to send their transaction commute:
\* in either order each gets the answer it gets when it goes first, and the
\* three tables end up the same.
TransactionsCommute ==
    \A p, q \in Procs :
        (/\ p # q
         /\ inv[p].pc \in {"borrowTx", "returnTx"}
         /\ inv[q].pc \in {"borrowTx", "returnTx"}
         /\ inv[p].bookId # inv[q].bookId
         /\ inv[p].userId # inv[q].userId)
        => LET st == [status |-> 0, borrowings |-> borrowings, books |-> books, users |-> users]
               pFirst == TransactOutcome(st, inv[p])
               qFirst == TransactOutcome(st, inv[q])
               pThenQ == TransactOutcome(pFirst, inv[q])
               qThenP == TransactOutcome(qFirst, inv[p])
           IN /\ pThenQ.status = qFirst.status
              /\ qThenP.status = pFirst.status
              /\ pThenQ.borrowings = qThenP.borrowings
              /\ pThenQ.books = qThenP.books
              /\ pThenQ.users = qThenP.users

\* C36: a borrowBook that answers 200 overwrites no stored record: its id
\* is the id of no record in the table, the table has one record more
\* afterwards, and every record that was stored keeps its userId, bookId and
\* status.
BorrowNeverOverwrites ==
    [][\A p \in Procs :
          (inv[p].pc = "borrowTx" /\ Steps(p) /\ Answers(p, 200))
          => /\ inv[p].recId \notin Present(borrowings, RecIds)
             /\ Cardinality(Present(borrowings', RecIds)) =
                   Cardinality(Present(borrowings, RecIds)) + 1
             /\ \A r \in Present(borrowings, RecIds) :
                   /\ borrowings'[r] # NoItem
                   /\ borrowings'[r].userId = borrowings[r].userId
                   /\ borrowings'[r].bookId = borrowings[r].bookId
                   /\ borrowings'[r].status = borrowings[r].status]_vars

\* C37: in tables filled by createUser and createBook alone, every user has
\* currentBorrowedCount = 0, borrowingLimit = 5 and membershipStatus
\* 'active', and every book has availableCopies = totalCopies.
CreatedEntitiesWellFormed ==
    /\ \A u \in Present(users, UserIds) :
          /\ users[u].currentBorrowedCount = 0
          /\ users[u].borrowingLimit = DefaultBorrowingLimit
          /\ users[u].membershipStatus = "active"
    /\ \A b \in Present(books, BookIds) :
          books[b].availableCopies = books[b].totalCopies

CreatedBothSeen ==
    /\ Quiescent
    /\ \E u \in Present(users, UserIds) : users[u].borrowingLimit = DefaultBorrowingLimit
    /\ \E b \in Present(books, BookIds) : books[b].availableCopies = MaxCopies

\* C38: every borrowBook and returnBook invocation that has passed the
\* API-key check ends with one answer, of 200, 400, 404, 409 or 500: an
\* invocation at a store call gets to its answer whatever the other
\* invocation does, and an answer given is one of these five.
InvocationsTerminate ==
    /\ [](\A p \in Procs :
            (/\ inv[p].pc = "idle"
             /\ inv[p].op \in {"borrow", "return"}
             /\ validateApiKey(inv[p].apiKey))
            => inv[p].status \in {200, 400, 404, 409, 500})
    /\ \A p \in Procs :
          (inv[p].pc # "idle") ~>
              (inv[p].pc = "idle" /\ inv[p].status \in {200, 404, 409})

AllAnsweredSeen ==
    /\ Quiescent
    /\ calls = MaxCalls
    /\ \E p, q \in Procs :
          /\ p # q
          /\ Answered(p, "return", 200)
          /\ Answered(q, "borrow", 409)

TypeOK ==
    /\ \A b \in BookIds : books[b] = NoItem \/ books[b].totalCopies \in -1..MaxCopies
    /\ \A p \in Procs : inv[p].status \in {0, 200, 201, 400, 401, 404, 409, 500}
====
